---- MODULE Spec2Model ----
(***************************************************************************)
(* Keyword idea generator (src/index.tsx): the submit handler with its     *)
(* loading flag, the markdown render path, and the two table extractors    *)
(* (CSV of the "Ad Group:" tables, JSON of the "Priority Keywords" table). *)
(*                                                                         *)
(* Text is a sequence of one-character strings, so that startsWith, trim,  *)
(* quote doubling and CSV parsing are computed character by character.     *)
(* The results area is the sequence of its child elements in document      *)
(* order; an element is a record                                           *)
(*    [tag, text, th, rows, message]                                       *)
(* with text the textContent of a heading, th the innerText of the header  *)
(* cells of a table, rows the innerText of the td cells of each body row,  *)
(* and message the text of the error <div>.                                *)
(***************************************************************************)
EXTENDS Naturals, Sequences, FiniteSets

VARIABLES
    isLoading,            \* let isLoading (line 28)
    generateBtnDisabled,  \* generateBtn.disabled
    spinnerHidden,        \* spinner.hidden
    btnText,              \* btnText.textContent
    placeholderDisplay,   \* placeholder.style.display
    resultsContainer,     \* children of #results-container
    exportControlsHidden, \* exportControls.hidden
    pending,              \* handleFormSubmit invocations suspended at line 136
    parsing,              \* unsafeHtml of the invocations suspended at line 143
    submits,              \* history: submit events delivered
    requests,             \* history: generateContent calls issued
    lastResult,           \* history: what the most recently settled call returned
    exportClicks,         \* history: export clicks delivered
    lastExport            \* history: what the most recent export click did

vars == <<isLoading, generateBtnDisabled, spinnerHidden, btnText,
          placeholderDisplay, resultsContainer, exportControlsHidden,
          pending, parsing, submits, requests, lastResult, exportClicks,
          lastExport>>

page == <<isLoading, generateBtnDisabled, spinnerHidden, btnText,
          placeholderDisplay, resultsContainer, exportControlsHidden>>

-----------------------------------------------------------------------------
(* Bounds *)

MaxSubmits == 3
MaxClicks == 2
MaxBlocks == 4
MaxCols == 2
MaxRows == 2

-----------------------------------------------------------------------------
(* Text *)

SeqsUpTo(S, n) == UNION {[1..k -> S] : k \in 0..n}

AdGroupPrefix == <<"A", "d", " ", "G", "r", "o", "u", "p", ":">>

PriorityKeywords ==
    <<"P", "r", "i", "o", "r", "i", "t", "y", " ",
      "K", "e", "y", "w", "o", "r", "d", "s">>

Whitespace == {" ", "\n", "\t"}

\* String.prototype.startsWith
StartsWith(s, prefix) ==
    /\ Len(s) >= Len(prefix)
    /\ SubSeq(s, 1, Len(prefix)) = prefix

RECURSIVE TrimStart(_)
TrimStart(s) ==
    IF s # <<>> /\ Head(s) \in Whitespace THEN TrimStart(Tail(s)) ELSE s

RECURSIVE TrimEnd(_)
TrimEnd(s) ==
    IF s # <<>> /\ s[Len(s)] \in Whitespace
    THEN TrimEnd(SubSeq(s, 1, Len(s) - 1))
    ELSE s

\* String.prototype.trim
Trim(s) == TrimEnd(TrimStart(s))

\* Array.prototype.map(x => x.innerText.trim())
MapTrim(cells) == [i \in 1..Len(cells) |-> Trim(cells[i])]

\* Array.prototype.join
RECURSIVE Join(_, _)
Join(parts, sep) ==
    IF parts = <<>> THEN <<>>
    ELSE IF Len(parts) = 1 THEN parts[1]
    ELSE parts[1] \o sep \o Join(Tail(parts), sep)

-----------------------------------------------------------------------------
(* DOM elements *)

Heading(tag, text) ==
    [tag |-> tag, text |-> text, th |-> <<>>, rows |-> <<>>, message |-> ""]

Table(th, rows) ==
    [tag |-> "table", text |-> <<>>, th |-> th, rows |-> rows, message |-> ""]

Paragraph ==
    [tag |-> "p", text |-> <<>>, th |-> <<>>, rows |-> <<>>, message |-> ""]

Script ==
    [tag |-> "script", text |-> <<>>, th |-> <<>>, rows |-> <<>>, message |-> ""]

ErrorDiv(message) ==
    [tag |-> "div", text |-> <<>>, th |-> <<>>, rows |-> <<>>, message |-> message]

EmptyResponseMessage == "Received an empty response from the AI. Please try again."

GenericErrorMessage ==
    "An error occurred while generating keywords. Please check the console for details and try again."

-----------------------------------------------------------------------------
(* Renderer: marked.parse, then DOMPurify.sanitize.                        *)
(* A markdown document is a sequence of blocks                             *)
(*    [kind, level, text, header, rows, el]:                               *)
(* an ATX heading, a pipe table, a paragraph, or a block of raw HTML (el), *)
(* which markdown passes through unchanged.                                *)

NoEl == Paragraph

MdHeading(level, text) ==
    [kind |-> "heading", level |-> level, text |-> text,
     header |-> <<>>, rows |-> <<>>, el |-> NoEl]

MdTable(header, rows) ==
    [kind |-> "table", level |-> 0, text |-> <<>>,
     header |-> header, rows |-> rows, el |-> NoEl]

MdParagraph ==
    [kind |-> "paragraph", level |-> 0, text |-> <<>>,
     header |-> <<>>, rows |-> <<>>, el |-> NoEl]

MdHtml(el) ==
    [kind |-> "html", level |-> 0, text |-> <<>>,
     header |-> <<>>, rows |-> <<>>, el |-> el]

\* A pipe table's body row has exactly as many cells as the header row:
\* missing cells are added empty, excess cells are dropped.
FitRow(row, n) == [i \in 1..n |-> IF i <= Len(row) THEN row[i] ELSE <<>>]

RenderBlock(b) ==
    IF b.kind = "heading"
    THEN Heading(IF b.level = 3 THEN "h3" ELSE "h4", b.text)
    ELSE IF b.kind = "table"
    THEN Table(b.header,
               [r \in 1..Len(b.rows) |-> FitRow(b.rows[r], Len(b.header))])
    ELSE IF b.kind = "html" THEN b.el
    ELSE Paragraph

\* marked.parse(markdownContent)
MarkedParse(md) == [i \in 1..Len(md) |-> RenderBlock(md[i])]

IsUnsafe(el) == el.tag = "script"

\* Mutant: the rendered HTML is inserted as marked produced it
SanitizeSkipped(html) == html

\* DOMPurify.sanitize(unsafeHtml)
Sanitize(html) == SelectSeq(html, LAMBDA el : ~IsUnsafe(el))

-----------------------------------------------------------------------------
(* exportKeywordsToCSV *)

IsAdGroupHeading(el) == el.tag = "h4" /\ StartsWith(el.text, AdGroupPrefix)

\* heading.nextElementSibling is a TABLE
HasTableAfter(dom, i) == i < Len(dom) /\ dom[i + 1].tag = "table"

\* rows.forEach: push every row that has at least one td
RECURSIVE PushRows(_, _)
PushRows(data, rows) ==
    IF rows = <<>> THEN data
    ELSE LET rowData == MapTrim(Head(rows))
         IN  PushRows(IF Len(rowData) > 0 THEN Append(data, rowData) ELSE data,
                      Tail(rows))

\* headings.forEach, carrying the closure variables  headers  and  data
RECURSIVE CsvScan(_, _, _, _)
CsvScan(dom, i, headers, data) ==
    IF i > Len(dom) THEN data
    ELSE IF IsAdGroupHeading(dom[i]) /\ HasTableAfter(dom, i)
    THEN LET table    == dom[i + 1]
             capture  == Len(headers) = 0
             headers2 == IF capture THEN MapTrim(table.th) ELSE headers
             data2    == IF capture THEN Append(data, headers2) ELSE data
         IN  CsvScan(dom, i + 1, headers2, PushRows(data2, table.rows))
    ELSE CsvScan(dom, i + 1, headers, data)

CsvData(dom) == CsvScan(dom, 1, <<>>, <<>>)

\* cell.replace(/"/g, '""')
RECURSIVE DoubleQuotes(_)
DoubleQuotes(cell) ==
    IF cell = <<>> THEN <<>>
    ELSE (IF Head(cell) = "\"" THEN <<"\"", "\"">> ELSE <<Head(cell)>>)
         \o DoubleQuotes(Tail(cell))

\* newCell.search(/("|,|\n)/g) >= 0
NeedsQuoting(s) == \E i \in 1..Len(s) : s[i] \in {"\"", ",", "\n"}

EscapeCell(cell) ==
    LET newCell == DoubleQuotes(cell)
    IN  IF NeedsQuoting(newCell) THEN <<"\"">> \o newCell \o <<"\"">> ELSE newCell

CsvRow(row) == Join([i \in 1..Len(row) |-> EscapeCell(row[i])], <<",">>)

CsvContent(data) == Join([r \in 1..Len(data) |-> CsvRow(data[r])], <<"\n">>)

-----------------------------------------------------------------------------
(* exportPriorityKeywordsToJSON *)

IsPriorityHeading(el) == el.tag = "h3" /\ Trim(el.text) = PriorityKeywords

\* Array.prototype.find: index of the first match, 0 when there is none
RECURSIVE FindPriorityHeading(_, _)
FindPriorityHeading(dom, i) ==
    IF i > Len(dom) THEN 0
    ELSE IF IsPriorityHeading(dom[i]) THEN i
    ELSE FindPriorityHeading(dom, i + 1)

EmptyObject == [k \in {} |-> <<>>]

\* rowData[header] = value
SetProperty(obj, key, value) ==
    [k \in DOMAIN obj \cup {key} |-> IF k = key THEN value ELSE obj[k]]

\* headers.forEach((header, index) => rowData[header] = cells[index].innerText.trim())
RECURSIVE FillRow(_, _, _, _)
FillRow(rowData, headers, cells, index) ==
    IF index > Len(headers) THEN rowData
    ELSE FillRow(SetProperty(rowData, headers[index], Trim(cells[index])),
                 headers, cells, index + 1)

\* Mutant: a row with more cells than headers is exported too
CellCountAtLeast(cells, headers) == Len(cells) >= Len(headers)

\* if (cells.length === headers.length)
CellCountMatches(cells, headers) == Len(cells) = Len(headers)

\* rows.forEach: one object per row whose td count equals the th count
RECURSIVE JsonRows(_, _, _)
JsonRows(data, headers, rows) ==
    IF rows = <<>> THEN data
    ELSE LET cells == Head(rows)
         IN  JsonRows(IF CellCountMatches(cells, headers)
                      THEN Append(data, FillRow(EmptyObject, headers, cells, 1))
                      ELSE data,
                      headers, Tail(rows))

JsonData(dom) ==
    LET h == FindPriorityHeading(dom, 1)
    IN  IF h # 0 /\ HasTableAfter(dom, h)
        THEN JsonRows(<<>>, MapTrim(dom[h + 1].th), dom[h + 1].rows)
        ELSE <<>>

-----------------------------------------------------------------------------
(* What ai.models.generateContent can settle with: a rejection (no         *)
(* connection, or a non-success status, which the client throws), or a     *)
(* response whose .text is undefined (hasText FALSE) or a markdown string. *)

ApiResult(type, hasText, text) == [type |-> type, hasText |-> hasText, text |-> text]

NoResult == ApiResult("none", FALSE, <<>>)

TextResult(md) == ApiResult("response", TRUE, md)

KeywordText == <<"K", "e", "y", "w", "o", "r", "d">>
ReasonText == <<"R", "e", "a", "s", "o", "n">>
AdGroupA == AdGroupPrefix \o <<" ", "A">>
OtherHeading == <<"A", "d", "s">>

PlumbingResponse ==
    <<MdHeading(4, AdGroupA),
      MdTable(<<KeywordText>>, << <<<<"x">>>>, <<<<"y">>>> >>),
      MdHeading(3, PriorityKeywords),
      MdTable(<<KeywordText, ReasonText>>, << <<<<"x">>, <<"r">>>> >>)>>

InjectedResponse ==
    <<MdHtml(Script),
      MdHeading(4, AdGroupA),
      MdTable(<<KeywordText>>, << <<<<"z">>>> >>)>>

ProseResponse == <<MdParagraph>>

FlowResponses == {PlumbingResponse, InjectedResponse, ProseResponse}

ApiResults ==
    {ApiResult("transport_error", FALSE, <<>>),
     ApiResult("api_error", FALSE, <<>>),
     ApiResult("response", FALSE, <<>>),
     TextResult(<<>>)}
    \cup {TextResult(md) : md \in FlowResponses}

-----------------------------------------------------------------------------
(* UI controller *)

\* setLoading(loading)
SetLoading(loading) ==
    /\ isLoading' = loading
    /\ generateBtnDisabled' = loading
    /\ spinnerHidden' = ~loading
    /\ btnText' = IF loading THEN "Generating..." ELSE "Generate Keywords"

\* displayError(message)
DisplayError(message) ==
    /\ resultsContainer' = <<ErrorDiv(message)>>
    /\ exportControlsHidden' = TRUE

\* Mutant: no guard against a submit during a generation
ReentrantIgnored == FALSE

\* if (isLoading) return;
Reentrant == isLoading

\* Mutant: a submit leaves the export controls as they are
KeepExportControls == UNCHANGED exportControlsHidden

\* exportControls.hidden = true;  (on submit)
HideExportControls == exportControlsHidden' = TRUE

\* Mutant: a submit leaves the previous results on the page
KeepResults == UNCHANGED resultsContainer

\* resultsContainer.innerHTML = '';
ClearResults == resultsContainer' = <<>>

\* Mutant: only an undefined text counts as no response ('' is rendered)
IsDefined(result) == result.hasText

\* if (markdownContent)
IsTruthy(result) == result.hasText /\ result.text # <<>>

\* Mutant: the loading state is not reset when the handler ends
FinallySkipped == UNCHANGED <<isLoading, generateBtnDisabled, spinnerHidden, btnText>>

\* finally { setLoading(false); }
Finally == SetLoading(FALSE)

\* A task (an event handler) starts only when no microtask is queued: the
\* continuation of  await Promise.resolve(...)  runs before the next event.
NoMicrotask == parsing = <<>>

\* handleFormSubmit, up to the call of generateContent
SubmitEvent ==
    /\ NoMicrotask
    /\ submits < MaxSubmits
    /\ submits' = submits + 1
    /\ IF Reentrant
       THEN UNCHANGED <<page, pending, requests>>
       ELSE /\ SetLoading(TRUE)
            /\ HideExportControls
            /\ placeholderDisplay' = "none"
            /\ ClearResults
            /\ requests' = requests + 1
            /\ pending' = pending + 1
    /\ UNCHANGED <<parsing, lastResult, exportClicks, lastExport>>

\* handleFormSubmit resumed after  await ai.models.generateContent(...)
GenerateSettles ==
    /\ NoMicrotask
    /\ pending > 0
    /\ \E result \in ApiResults :
          /\ lastResult' = result
          /\ IF result.type # "response"
             THEN /\ DisplayError(GenericErrorMessage)
                  /\ Finally
                  /\ UNCHANGED parsing
             ELSE IF IsTruthy(result)
             THEN /\ parsing' = Append(parsing, MarkedParse(result.text))
                  /\ UNCHANGED <<isLoading, generateBtnDisabled, spinnerHidden,
                                 btnText, resultsContainer, exportControlsHidden>>
             ELSE /\ DisplayError(EmptyResponseMessage)
                  /\ Finally
                  /\ UNCHANGED parsing
    /\ pending' = pending - 1
    /\ UNCHANGED <<placeholderDisplay, submits, requests, exportClicks, lastExport>>

\* handleFormSubmit resumed after  await Promise.resolve(marked.parse(...))
RenderResumes ==
    /\ parsing # <<>>
    /\ resultsContainer' = Sanitize(Head(parsing))
    /\ exportControlsHidden' = FALSE
    /\ Finally
    /\ parsing' = Tail(parsing)
    /\ UNCHANGED <<placeholderDisplay, pending, submits, requests, lastResult,
                   exportClicks, lastExport>>

-----------------------------------------------------------------------------
(* Export clicks *)

\* at: how many requests had been issued when the click was handled
ExportResult(kind, outcome, message, fileName, csv, json) ==
    [kind |-> kind, outcome |-> outcome, message |-> message,
     fileName |-> fileName, csv |-> csv, json |-> json, at |-> requests]

NoExport ==
    [kind |-> "none", outcome |-> "none", message |-> "",
     fileName |-> "", csv |-> <<>>, json |-> <<>>, at |-> 0]

\* Mutant: a refused export empties the results area
AlertClearingResults(kind, message) ==
    /\ lastExport' = ExportResult(kind, "alert", message, "", <<>>, <<>>)
    /\ resultsContainer' = <<>>
    /\ UNCHANGED <<isLoading, generateBtnDisabled, spinnerHidden, btnText,
                   placeholderDisplay, exportControlsHidden>>

\* alert(message); return;
Alert(kind, message) ==
    /\ lastExport' = ExportResult(kind, "alert", message, "", <<>>, <<>>)
    /\ UNCHANGED page

\* downloadFile(content, fileName, mimeType): the anchor is added to and
\* removed from document.body, outside the results area
DownloadFile(kind, fileName, csv, json) ==
    /\ lastExport' = ExportResult(kind, "file", "", fileName, csv, json)
    /\ UNCHANGED page

\* if (data.length <= 1)
OnlyHeaders(data) == Len(data) <= 1

\* exportKeywordsToCSV
ExportCsvClick ==
    /\ NoMicrotask
    /\ exportClicks < MaxClicks
    /\ exportClicks' = exportClicks + 1
    /\ LET data == CsvData(resultsContainer)
       IN  IF OnlyHeaders(data)
           THEN Alert("csv", "No keyword data found to export.")
           ELSE DownloadFile("csv", "keyword_ideas.csv", CsvContent(data), <<>>)
    /\ UNCHANGED <<pending, parsing, submits, requests, lastResult>>

\* exportPriorityKeywordsToJSON
ExportJsonClick ==
    /\ NoMicrotask
    /\ exportClicks < MaxClicks
    /\ exportClicks' = exportClicks + 1
    /\ LET data == JsonData(resultsContainer)
       IN  IF Len(data) = 0
           THEN Alert("json", "No priority keywords found to export.")
           ELSE DownloadFile("json", "priority_keywords.json", <<>>, data)
    /\ UNCHANGED <<pending, parsing, submits, requests, lastResult>>

-----------------------------------------------------------------------------
(* The page *)

Init ==
    /\ isLoading = FALSE
    /\ generateBtnDisabled = FALSE
    /\ spinnerHidden = TRUE
    /\ btnText = "Generate Keywords"
    /\ placeholderDisplay = "block"
    /\ resultsContainer = <<>>
    /\ exportControlsHidden \in BOOLEAN
    /\ pending = 0
    /\ parsing = <<>>
    /\ submits = 0
    /\ requests = 0
    /\ lastResult = NoResult
    /\ exportClicks = 0
    /\ lastExport = NoExport

Next ==
    \/ SubmitEvent
    \/ GenerateSettles
    \/ RenderResumes
    \/ ExportCsvClick
    \/ ExportJsonClick

Spec == Init /\ [][Next]_vars

-----------------------------------------------------------------------------
(* The extractors on their own: the page right after a successful          *)
(* generation, for each response of three bounded families, and then       *)
(* export clicks only.  Raw HTML blocks give the tables markdown's pipe    *)
(* syntax cannot: no header cell, or body rows of another length.          *)

\* Family 1: every arrangement of up to MaxBlocks headings, paragraphs and tables
ShapeTables ==
    {Table(th, rows) :
        th \in {<<>>, <<KeywordText>>},
        rows \in {<<>>, << <<>> >>, << <<<<"x">>>> >>}}

ShapeBlocks ==
    {MdHeading(4, AdGroupA), MdHeading(4, OtherHeading)}
    \cup {MdHtml(t) : t \in ShapeTables \ {Table(<<KeywordText>>, << <<>> >>)}}

ShapeResponses == SeqsUpTo(ShapeBlocks, MaxBlocks) \ {<<>>}

\* Family 2: one "Ad Group:" table whose cells hold quotes, commas and newlines
CsvCells ==
    {<<>>, <<"a">>, <<"\"">>, <<",">>, <<"a", "\n", "b">>,
     <<"a", "\"", "b">>, <<"\"", "\"">>, <<" ", "a", ",">>}

CellResponses ==
    {<<MdHeading(4, AdGroupA), MdHtml(Table(th, <<row>>))>> :
        th \in SeqsUpTo(CsvCells, 1), row \in SeqsUpTo(CsvCells, MaxCols)}

\* Family 3: a table of up to MaxCols columns and MaxRows rows, each row of
\* any length up to MaxCols, after a "Priority Keywords" heading or not
HeaderNames == {KeywordText, ReasonText}

RowLetter == <<"a", "b", "c", "d">>
ColDigit == <<"1", "2", "3", "4">>

\* the cell of row r and column c: its text names its place
CellAt(r, c) == <<" ", RowLetter[r], ColDigit[c]>>

PriorityTables ==
    {Table(th, [r \in 1..Len(lens) |-> [c \in 1..lens[r] |-> CellAt(r, c)]]) :
        th \in SeqsUpTo(HeaderNames, MaxCols),
        lens \in SeqsUpTo(0..MaxCols, MaxRows)}

PriorityContexts ==
    {<<MdHeading(3, PriorityKeywords)>>,
     <<MdHeading(3, <<" ">> \o PriorityKeywords \o <<"\n">>)>>,
     <<MdHeading(3, PriorityKeywords \o <<" ", "A">>)>>,
     <<MdHeading(4, PriorityKeywords)>>,
     <<MdHeading(3, PriorityKeywords), MdParagraph>>,
     <<MdHeading(3, PriorityKeywords), MdParagraph, MdHeading(3, PriorityKeywords)>>,
     <<MdHeading(3, OtherHeading), MdHeading(3, PriorityKeywords)>>}

PriorityResponses ==
    {ctx \o <<MdHtml(t)>> : ctx \in PriorityContexts, t \in PriorityTables}
    \cup {<<MdHeading(3, PriorityKeywords), MdTable(t.th, t.rows)>> :
             t \in {u \in PriorityTables : u.th # <<>>}}

ExportResponses == ShapeResponses \cup CellResponses \cup PriorityResponses

InitExport ==
    /\ isLoading = FALSE
    /\ generateBtnDisabled = FALSE
    /\ spinnerHidden = TRUE
    /\ btnText = "Generate Keywords"
    /\ placeholderDisplay = "none"
    /\ \E md \in ExportResponses :
          /\ lastResult = TextResult(md)
          /\ resultsContainer = Sanitize(MarkedParse(md))
    /\ exportControlsHidden = FALSE
    /\ pending = 0
    /\ parsing = <<>>
    /\ submits = 1
    /\ requests = 1
    /\ exportClicks = 0
    /\ lastExport = NoExport

NextExport ==
    \/ ExportCsvClick
    \/ ExportJsonClick

SpecExport == InitExport /\ [][NextExport]_vars

-----------------------------------------------------------------------------
(* Properties of the submit handler (specification Spec) *)

Settled == requests > 0 /\ pending = 0 /\ parsing = <<>>

Succeeded == lastResult.type = "response" /\ lastResult.hasText /\ lastResult.text # <<>>

Rendered == Sanitize(MarkedParse(lastResult.text))

\* C1: a submit that arrives while the generating flag is set issues no
\* request and changes nothing; a submit that arrives while it is clear issues
\* exactly one request; at most one request is outstanding at any time, and a
\* request is only ever issued by the submit that is being handled (a dropped
\* submit is never replayed).
C1_SubmitGuard ==
    [][ /\ pending' + Len(parsing') <= 1
        /\ (submits' # submits /\ isLoading)
              => UNCHANGED <<page, pending, parsing, requests>>
        /\ (submits' # submits /\ ~isLoading)
              => (requests' = requests + 1 /\ pending' = pending + 1)
        /\ requests' # requests => (submits' = submits + 1 /\ ~isLoading)
      ]_vars

\* a second submit was dropped while the first request was outstanding
C1_Witness == submits = 2 /\ requests = 1 /\ pending = 1 /\ isLoading

\* C2: once the call of every accepted submission has settled (non-empty
\* text, empty text or a thrown error), the generating flag is clear and the
\* submit button enabled, so the next submit is accepted.
C2_LoadingRestored ==
    Settled => (~isLoading /\ ~generateBtnDisabled)

\* after a failed generation a further submit was accepted and issued a request
C2_Witness ==
    /\ requests = 2
    /\ pending = 1
    /\ lastResult.type = "transport_error"
    /\ isLoading

\* C3: the results area is empty, or one of the fixed error messages, or the
\* sanitizer's output for the rendered markdown of the current response; it
\* never holds an element the sanitizer removes.
C3_OnlySanitized ==
    /\ \/ resultsContainer = <<>>
       \/ resultsContainer = <<ErrorDiv(EmptyResponseMessage)>>
       \/ resultsContainer = <<ErrorDiv(GenericErrorMessage)>>
       \/ (Succeeded /\ resultsContainer = Rendered)
    /\ \A i \in 1..Len(resultsContainer) : ~IsUnsafe(resultsContainer[i])

\* a response carrying a script element has been rendered
C3_Witness ==
    /\ Settled
    /\ Succeeded
    /\ \E i \in 1..Len(lastResult.text) : IsUnsafe(RenderBlock(lastResult.text[i]))
    /\ resultsContainer # <<>>
    /\ ~exportControlsHidden

Failed == Settled /\ ~Succeeded

C5_ExportControls ==
    requests > 0 =>
        /\ ~exportControlsHidden <=> (Settled /\ Succeeded)
        /\ ~exportControlsHidden => resultsContainer = Rendered

\* a generation is in flight after an earlier one succeeded: controls hidden
C5_Witness ==
    /\ requests = 2
    /\ pending = 1
    /\ Succeeded
    /\ exportControlsHidden

\* C9: an export click, whether it downloads a file or refuses with an alert,
\* leaves the results area, the generating flag and the visibility of the
\* export controls as they were.
C9_ExportFrame ==
    [][ exportClicks' # exportClicks
          => UNCHANGED <<resultsContainer, isLoading, exportControlsHidden>>
      ]_vars

\* an export refused although rendered results are on the page
C9_Witness ==
    /\ lastExport.outcome = "alert"
    /\ lastExport.at = requests
    /\ Settled
    /\ Succeeded
    /\ resultsContainer = Rendered
    /\ resultsContainer # <<>>

\* C10: an export click downloads a file only when no generation is in
\* flight and the results area holds the rendered output of the most recent
\* response, and the file is made of that output; a click while a generation
\* is in flight or after a failed one ends in the refusal.
C10_ExportOnlyCurrent ==
    [][ exportClicks' # exportClicks =>
          /\ lastExport'.outcome = "file" =>
                /\ Settled
                /\ Succeeded
                /\ resultsContainer = Rendered
                /\ lastExport'.csv =
                      (IF lastExport'.kind = "csv"
                       THEN CsvContent(CsvData(Rendered)) ELSE <<>>)
                /\ lastExport'.json =
                      (IF lastExport'.kind = "json" THEN JsonData(Rendered) ELSE <<>>)
          /\ (isLoading \/ Failed) => lastExport'.outcome = "alert"
      ]_vars

\* a click during the second generation, after the first had rendered
\* exportable tables, was refused
C10_Witness ==
    /\ requests = 2
    /\ pending = 1
    /\ lastResult = TextResult(PlumbingResponse)
    /\ lastExport.at = 2
    /\ lastExport.outcome = "alert"

-----------------------------------------------------------------------------
(* Properties of the extractors (specification SpecExport, in which the    *)
(* results area stays as rendered)                                         *)

\* A CSV reader: fields separated by commas, rows separated by newlines, a
\* field in double quotes may hold commas, newlines and doubled quotes.
RECURSIVE ParseCsvFrom(_, _, _, _, _, _)
ParseCsvFrom(s, i, inQuotes, field, row, rows) ==
    IF i > Len(s) THEN Append(rows, Append(row, field))
    ELSE IF inQuotes
    THEN IF s[i] = "\""
         THEN IF i < Len(s) /\ s[i + 1] = "\""
              THEN ParseCsvFrom(s, i + 2, TRUE, Append(field, "\""), row, rows)
              ELSE ParseCsvFrom(s, i + 1, FALSE, field, row, rows)
         ELSE ParseCsvFrom(s, i + 1, TRUE, Append(field, s[i]), row, rows)
    ELSE IF s[i] = "\"" THEN ParseCsvFrom(s, i + 1, TRUE, field, row, rows)
    ELSE IF s[i] = "," THEN ParseCsvFrom(s, i + 1, FALSE, <<>>, Append(row, field), rows)
    ELSE IF s[i] = "\n"
    THEN ParseCsvFrom(s, i + 1, FALSE, <<>>, <<>>, Append(rows, Append(row, field)))
    ELSE ParseCsvFrom(s, i + 1, FALSE, Append(field, s[i]), row, rows)

ParseCsv(s) == ParseCsvFrom(s, 1, FALSE, <<>>, <<>>, <<>>)

\* a table right after an "Ad Group:" heading has a body row with a cell
HasDataRow(dom) ==
    \E i \in 1..Len(dom) :
        /\ IsAdGroupHeading(dom[i])
        /\ HasTableAfter(dom, i)
        /\ \E r \in 1..Len(dom[i + 1].rows) : Len(dom[i + 1].rows[r]) > 0

CsvClicked == lastExport.kind = "csv"
CsvFile == CsvClicked /\ lastExport.outcome = "file"

\* C6: exportKeywordsToCSV produces a file only if a table right after an
\* "Ad Group:" heading has a data row; when there is none (tables without
\* header cells included) it shows the notice and produces no file; a file
\* it produces starts with a header line.
C6_FileOnlyWithData ==
    CsvClicked =>
        /\ lastExport.outcome = "file" => HasDataRow(resultsContainer)
        /\ lastExport.outcome = "file" =>
              (lastExport.csv # <<>> /\ Head(lastExport.csv) # "\n")
        /\ ~HasDataRow(resultsContainer) =>
              (lastExport.outcome = "alert" /\ lastExport.csv = <<>>)

IsSpecial(ch) == ch \in {"\"", ",", "\n"}

HasSpecial(cell) == \E i \in 1..Len(cell) : IsSpecial(cell[i])

IsWrapped(cell) ==
    LET e == EscapeCell(cell)
    IN  Len(e) = Len(DoubleQuotes(cell)) + 2 /\ e[1] = "\"" /\ e[Len(e)] = "\""

\* C8: reading the produced CSV text back recovers the exported rows and
\* cell values exactly, and a cell is wrapped in quotes if and only if it
\* contains a quote, a comma or a newline.
C8_CsvRoundTrip ==
    CsvFile =>
        LET data == CsvData(resultsContainer)
        IN  /\ ParseCsv(lastExport.csv) = data
            /\ \A r \in 1..Len(data) : \A c \in 1..Len(data[r]) :
                   IsWrapped(data[r][c]) <=> HasSpecial(data[r][c])

\* What does hold of the escaping: every exported row that has a cell is
\* read back exactly, and the wrapping rule is as stated; only a row without
\* cells (the header row of a table without header cells) is read back as a
\* row of one empty cell.
CsvRoundTripButEmptyRows ==
    CsvFile =>
        LET data == CsvData(resultsContainer)
            back == ParseCsv(lastExport.csv)
        IN  /\ Len(back) = Len(data)
            /\ \A r \in 1..Len(data) :
                   back[r] = (IF data[r] = <<>> THEN << <<>> >> ELSE data[r])
            /\ \A r \in 1..Len(data) : \A c \in 1..Len(data[r]) :
                   IsWrapped(data[r][c]) <=> HasSpecial(data[r][c])

\* index of the first h3 whose trimmed text is "Priority Keywords", or 0
PriorityIndex(dom) ==
    IF \E i \in 1..Len(dom) : IsPriorityHeading(dom[i])
    THEN CHOOSE i \in 1..Len(dom) :
            /\ IsPriorityHeading(dom[i])
            /\ \A j \in 1..(i - 1) : ~IsPriorityHeading(dom[j])
    ELSE 0

HasPriorityTable(dom) ==
    PriorityIndex(dom) # 0 /\ HasTableAfter(dom, PriorityIndex(dom))

PriorityHeaders(dom) == MapTrim(dom[PriorityIndex(dom) + 1].th)

\* the body rows with as many cells as there are header cells, in table order
PriorityRows(dom) ==
    IF HasPriorityTable(dom)
    THEN SelectSeq(dom[PriorityIndex(dom) + 1].rows,
                   LAMBDA row : Len(row) = Len(dom[PriorityIndex(dom) + 1].th))
    ELSE <<>>

\* the last column whose header is h
LastColumn(headers, h) ==
    CHOOSE c \in 1..Len(headers) :
        /\ headers[c] = h
        /\ \A d \in (c + 1)..Len(headers) : headers[d] # h

JsonClicked == lastExport.kind = "json"

====
